---- MODULE Spec2Model ----
(***************************************************************************)
(* Model of main.c of the nRF52840 tech demo (BLE peripheral): the startup *)
(* sequence of main(), the button callback button_handler()/send_button()  *)
(* and the BLE event callback ble_evt_handler(), together with the part of *)
(* the SoftDevice / SDK state these functions read and write.              *)
(* Handlers run to completion and never preempt each other; a link event   *)
(* is handled in the step in which the stack changes the link, and a       *)
(* button event may arrive between any two statements of main() once       *)
(* app_button_enable() has run.  Return codes of stack calls are chosen by *)
(* the stack; the program drops all of them.                               *)
(***************************************************************************)
EXTENDS Integers, Sequences, FiniteSets, TLC

(* ------------------------------ bounds --------------------------------- *)
\* connection handles the stack hands out are 0..MaxConnHandle
MaxConnHandle == 1
ConnHandles == 0 .. MaxConnHandle

(* ------------------------- program constants --------------------------- *)
BLE_CONN_HANDLE_INVALID == 65535
BLE_GAP_ADV_SET_HANDLE_NOT_SET == 255
BSP_BOARD_LED_1 == 1
BSP_BOARD_LED_2 == 2
BSP_BOARD_LED_3 == 3
BSP_BOARD_BUTTON_0 == 0
APP_BUTTON_PUSH == 1
APP_BUTTON_RELEASE == 0
UNIT_1_25_MS == 1250
UNIT_10_MS == 10000
SLAVE_LATENCY == 0

MSEC_TO_UNITS(TIME, RESOLUTION) == (TIME * 1000) \div RESOLUTION
MIN_CONN_INTERVAL == MSEC_TO_UNITS(100, UNIT_1_25_MS)
MAX_CONN_INTERVAL == MSEC_TO_UNITS(200, UNIT_1_25_MS)
CONN_SUP_TIMEOUT == MSEC_TO_UNITS(4000, UNIT_10_MS)

\* the LEDs the program drives, the pins and edges the button module reports
Leds == {BSP_BOARD_LED_1, BSP_BOARD_LED_2, BSP_BOARD_LED_3}
Pins == {BSP_BOARD_BUTTON_0, BSP_BOARD_BUTTON_0 + 1}
ButtonActions == {APP_BUTTON_RELEASE, APP_BUTTON_PUSH}

\* the handles the stack assigns: first advertising set, the characteristic value
SdAdvSetHandle == 0
SdCharValueHandle == 1

VARIABLES
    pc,                  \* position of main()
    led,                 \* board LEDs: led[i] = TRUE when lit
    button_enabled,      \* app_button_enable() has run
    m_conn_handle,       \* static uint16_t m_conn_handle
    m_adv_handle,        \* static uint8_t m_adv_handle
    m_qwr,               \* queued-write module instance
    button_char_handles, \* value handle of the button characteristic
    sd_ppcp,             \* preferred connection parameters held by the stack
    sd_adv_set,          \* advertising set configured in the stack
    sd_advertising,      \* the stack is advertising
    sd_link,             \* handle of the live link in the stack
    sd_calls,            \* number of registration / encode / configure calls made
    adv_start,           \* sd_ble_gap_adv_start calls made by the last step
    hvx,                 \* sd_ble_gatts_hvx calls made by the last step
    evt,                 \* the event delivered most recently (history)
    link_evt,            \* the connect/disconnect event delivered most recently
    last_button0         \* the edge of the last button-0 event delivered

vars == <<pc, led, button_enabled, m_conn_handle, m_adv_handle, m_qwr,
          button_char_handles, sd_ppcp, sd_adv_set, sd_advertising, sd_link,
          sd_calls, adv_start, hvx, evt, link_evt, last_button0>>

NoEvt == [kind |-> "none", pin |-> 0, action |-> 0,
          conn_handle |-> BLE_CONN_HANDLE_INVALID, in_startup |-> TRUE, seq |-> 0]
NoLinkEvt == [kind |-> "none", conn_handle |-> BLE_CONN_HANDLE_INVALID]
NoCalls == [service_add |-> 0, characteristic_add |-> 0, advdata_encode |-> 0,
            adv_set_configure |-> 0]

Init ==
    /\ pc = "bsp_board_init"
    /\ led = [i \in Leds |-> FALSE]
    /\ button_enabled = FALSE
    /\ m_conn_handle = BLE_CONN_HANDLE_INVALID
    /\ m_adv_handle = BLE_GAP_ADV_SET_HANDLE_NOT_SET
    /\ m_qwr = [initialized |-> FALSE, conn_handle |-> 0]
    /\ button_char_handles = [value_handle |-> 0]
    /\ sd_ppcp = [min_conn_interval |-> 0, max_conn_interval |-> 0,
                  slave_latency |-> 0, conn_sup_timeout |-> 0]
    /\ sd_adv_set = BLE_GAP_ADV_SET_HANDLE_NOT_SET
    /\ sd_advertising = FALSE
    /\ sd_link = BLE_CONN_HANDLE_INVALID
    /\ sd_calls = NoCalls
    /\ adv_start = <<>>
    /\ hvx = <<>>
    /\ evt = NoEvt
    /\ link_evt = NoLinkEvt
    /\ last_button0 = "none"

(* ------------------------ board and stack calls ------------------------ *)
bsp_board_led_on(leds, idx) == [leds EXCEPT ![idx] = TRUE]
bsp_board_led_off(leds, idx) == [leds EXCEPT ![idx] = FALSE]

\* return code of sd_ble_gap_adv_start for the handle passed; accepted says
\* whether the stack has the resources to start the advertiser
sd_ble_gap_adv_start(adv_handle, accepted) ==
    IF adv_handle = BLE_GAP_ADV_SET_HANDLE_NOT_SET \/ adv_handle # sd_adv_set
        THEN "BLE_ERROR_INVALID_ADV_HANDLE"
    ELSE IF sd_advertising THEN "NRF_ERROR_INVALID_STATE"
    ELSE IF accepted THEN "NRF_SUCCESS"
    ELSE "NRF_ERROR_RESOURCES"

\* return code of sd_ble_gatts_hvx for the connection addressed; enabled says
\* whether the peer has enabled notifications
sd_ble_gatts_hvx(conn_handle, enabled) ==
    IF conn_handle = BLE_CONN_HANDLE_INVALID \/ conn_handle # sd_link
        THEN "BLE_ERROR_INVALID_CONN_HANDLE"
    ELSE IF enabled THEN "NRF_SUCCESS"
    ELSE "NRF_ERROR_INVALID_STATE"

\* nrf_ble_qwr_conn_handle_assign on the instance qwr
nrf_ble_qwr_conn_handle_assign(qwr, conn_handle) ==
    IF qwr.initialized THEN [qwr EXCEPT !.conn_handle = conn_handle] ELSE qwr

(* ----------------------------- functions ------------------------------- *)
\* advertising_start() lighting the connected LED instead of the advertising LED
advertising_start_wrong_led(leds) ==
    \E accepted \in BOOLEAN :
        LET ret == sd_ble_gap_adv_start(m_adv_handle, accepted) IN
        /\ adv_start' = <<[adv_handle |-> m_adv_handle, ret |-> ret]>>
        /\ sd_advertising' = (sd_advertising \/ ret = "NRF_SUCCESS")
        /\ led' = bsp_board_led_on(leds, BSP_BOARD_LED_3)

\* advertising_start(), entered with the LEDs in state leds: the start request
\* (its return code is dropped) and the advertising LED
advertising_start(leds) ==
    \E accepted \in BOOLEAN :
        LET ret == sd_ble_gap_adv_start(m_adv_handle, accepted) IN
        /\ adv_start' = <<[adv_handle |-> m_adv_handle, ret |-> ret]>>
        /\ sd_advertising' = (sd_advertising \/ ret = "NRF_SUCCESS")
        /\ led' = bsp_board_led_on(leds, BSP_BOARD_LED_2)

\* send_button() addressing the handle bound to the queued-write module
send_button_qwr_handle(button_state) ==
    \E enabled \in BOOLEAN :
        hvx' = <<[conn_handle |-> m_qwr.conn_handle,
                  handle |-> button_char_handles.value_handle,
                  data |-> button_state,
                  ret |-> sd_ble_gatts_hvx(m_qwr.conn_handle, enabled)]>>

\* send_button(): one notification of the button characteristic, addressed to
\* m_conn_handle; the return code is dropped
send_button(button_state) ==
    \E enabled \in BOOLEAN :
        hvx' = <<[conn_handle |-> m_conn_handle,
                  handle |-> button_char_handles.value_handle,
                  data |-> button_state,
                  ret |-> sd_ble_gatts_hvx(m_conn_handle, enabled)]>>

\* button_handler() notifying only while a connection handle is stored
button_handler_guarded(pin, action) ==
    /\ IF pin = BSP_BOARD_BUTTON_0
          THEN /\ led' = IF action = APP_BUTTON_PUSH
                            THEN bsp_board_led_on(led, BSP_BOARD_LED_1)
                         ELSE IF action = APP_BUTTON_RELEASE
                            THEN bsp_board_led_off(led, BSP_BOARD_LED_1)
                         ELSE led
               /\ IF m_conn_handle # BLE_CONN_HANDLE_INVALID
                     THEN send_button(action) ELSE hvx' = <<>>
          ELSE UNCHANGED led /\ hvx' = <<>>
    /\ UNCHANGED <<m_conn_handle, m_adv_handle, m_qwr, button_char_handles,
                   sd_ppcp, sd_adv_set, sd_advertising, sd_calls>>
    /\ adv_start' = <<>>

\* button_handler() dropping the stored handle when the notification fails
button_handler_drop_on_error(pin, action) ==
    /\ IF pin = BSP_BOARD_BUTTON_0
          THEN /\ led' = IF action = APP_BUTTON_PUSH
                            THEN bsp_board_led_on(led, BSP_BOARD_LED_1)
                         ELSE IF action = APP_BUTTON_RELEASE
                            THEN bsp_board_led_off(led, BSP_BOARD_LED_1)
                         ELSE led
               /\ send_button(action)
               /\ m_conn_handle' = IF hvx'[1].ret = "NRF_SUCCESS"
                                      THEN m_conn_handle ELSE BLE_CONN_HANDLE_INVALID
          ELSE UNCHANGED <<led, m_conn_handle>> /\ hvx' = <<>>
    /\ UNCHANGED <<m_adv_handle, m_qwr, button_char_handles,
                   sd_ppcp, sd_adv_set, sd_advertising, sd_calls>>
    /\ adv_start' = <<>>

button_handler(pin, action) ==
    /\ IF pin = BSP_BOARD_BUTTON_0
          THEN /\ led' = IF action = APP_BUTTON_PUSH
                            THEN bsp_board_led_on(led, BSP_BOARD_LED_1)
                         ELSE IF action = APP_BUTTON_RELEASE
                            THEN bsp_board_led_off(led, BSP_BOARD_LED_1)
                         ELSE led
               /\ send_button(action)
          ELSE UNCHANGED led /\ hvx' = <<>>
    /\ UNCHANGED <<m_conn_handle, m_adv_handle, m_qwr, button_char_handles,
                   sd_ppcp, sd_adv_set, sd_advertising, sd_calls>>
    /\ adv_start' = <<>>

\* the connect branch binding the queued-write module before storing the handle
ble_evt_connected_bind_first(conn_handle) ==
    /\ led' = bsp_board_led_on(bsp_board_led_off(led, BSP_BOARD_LED_2), BSP_BOARD_LED_3)
    /\ m_qwr' = nrf_ble_qwr_conn_handle_assign(m_qwr, m_conn_handle)
    /\ m_conn_handle' = conn_handle
    /\ adv_start' = <<>>
    /\ UNCHANGED <<m_adv_handle, button_char_handles, sd_ppcp, sd_adv_set, sd_calls>>

\* the connect branch leaving the advertising LED lit
ble_evt_connected_keep_adv_led(conn_handle) ==
    /\ led' = bsp_board_led_on(led, BSP_BOARD_LED_3)
    /\ m_conn_handle' = conn_handle
    /\ m_qwr' = nrf_ble_qwr_conn_handle_assign(m_qwr, m_conn_handle')
    /\ adv_start' = <<>>
    /\ UNCHANGED <<m_adv_handle, button_char_handles, sd_ppcp, sd_adv_set, sd_calls>>

\* ble_evt_handler(), case BLE_GAP_EVT_CONNECTED
ble_evt_connected(conn_handle) ==
    /\ led' = bsp_board_led_on(bsp_board_led_off(led, BSP_BOARD_LED_2), BSP_BOARD_LED_3)
    /\ m_conn_handle' = conn_handle
    /\ m_qwr' = nrf_ble_qwr_conn_handle_assign(m_qwr, m_conn_handle')
    /\ adv_start' = <<>>
    /\ UNCHANGED <<m_adv_handle, button_char_handles, sd_ppcp, sd_adv_set, sd_calls>>

\* the disconnect branch leaving the stored handle in place
ble_evt_disconnected_keep_handle ==
    /\ m_conn_handle' = m_conn_handle
    /\ advertising_start(bsp_board_led_off(led, BSP_BOARD_LED_3))
    /\ UNCHANGED <<m_adv_handle, m_qwr, button_char_handles, sd_ppcp, sd_adv_set,
                   sd_calls>>

\* the disconnect branch lighting the advertising LED without a start request
ble_evt_disconnected_no_restart ==
    /\ m_conn_handle' = BLE_CONN_HANDLE_INVALID
    /\ led' = bsp_board_led_on(bsp_board_led_off(led, BSP_BOARD_LED_3), BSP_BOARD_LED_2)
    /\ adv_start' = <<>>
    /\ UNCHANGED <<m_adv_handle, m_qwr, button_char_handles, sd_ppcp, sd_adv_set,
                   sd_advertising, sd_calls>>

\* the disconnect branch configuring the advertising set again before the start
ble_evt_disconnected_reconfigure ==
    /\ m_conn_handle' = BLE_CONN_HANDLE_INVALID
    /\ sd_calls' = [sd_calls EXCEPT !.advdata_encode = @ + 2,
                                    !.adv_set_configure = @ + 1]
    /\ advertising_start(bsp_board_led_off(led, BSP_BOARD_LED_3))
    /\ UNCHANGED <<m_adv_handle, m_qwr, button_char_handles, sd_ppcp, sd_adv_set>>

\* ble_evt_handler(), case BLE_GAP_EVT_DISCONNECTED
ble_evt_disconnected ==
    /\ m_conn_handle' = BLE_CONN_HANDLE_INVALID
    /\ advertising_start(bsp_board_led_off(led, BSP_BOARD_LED_3))
    /\ UNCHANGED <<m_adv_handle, m_qwr, button_char_handles, sd_ppcp, sd_adv_set,
                   sd_calls>>

ble_evt_handler(evt_id, conn_handle) ==
    /\ hvx' = <<>>
    /\ \/ evt_id = "BLE_GAP_EVT_CONNECTED" /\ ble_evt_connected(conn_handle)
       \/ evt_id = "BLE_GAP_EVT_DISCONNECTED" /\ ble_evt_disconnected

(* ------------------------------- main() -------------------------------- *)
\* what a step of main() leaves alone besides what it names
MainFrame == UNCHANGED <<evt, link_evt, last_button0, sd_link, m_conn_handle>>
           /\ hvx' = <<>>

\* bsp_board_init(BSP_INIT_LEDS), app_timer_init(), nrf_sdh_enable_request()
main_board_init ==
    /\ pc = "bsp_board_init" /\ pc' = "app_button_init"
    /\ led' = [i \in Leds |-> FALSE]
    /\ adv_start' = <<>>
    /\ UNCHANGED <<button_enabled, m_adv_handle, m_qwr, button_char_handles,
                   sd_ppcp, sd_adv_set, sd_advertising, sd_calls>>
    /\ MainFrame

\* app_button_init(buttons, ...), app_button_enable()
main_app_button_enable ==
    /\ pc = "app_button_init" /\ pc' = "nrf_sdh_ble_enable"
    /\ button_enabled' = TRUE
    /\ adv_start' = <<>>
    /\ UNCHANGED <<led, m_adv_handle, m_qwr, button_char_handles,
                   sd_ppcp, sd_adv_set, sd_advertising, sd_calls>>
    /\ MainFrame

\* nrf_sdh_ble_default_cfg_set(), nrf_sdh_ble_enable(), NRF_SDH_BLE_OBSERVER()
main_ble_enable ==
    /\ pc = "nrf_sdh_ble_enable" /\ pc' = "gap_params_init"
    /\ adv_start' = <<>>
    /\ UNCHANGED <<led, button_enabled, m_adv_handle, m_qwr, button_char_handles,
                   sd_ppcp, sd_adv_set, sd_advertising, sd_calls>>
    /\ MainFrame

\* the parameters gap_params_init() passes to sd_ble_gap_ppcp_set
gap_conn_params ==
    [min_conn_interval |-> MIN_CONN_INTERVAL,
     max_conn_interval |-> MIN_CONN_INTERVAL,
     slave_latency |-> SLAVE_LATENCY,
     conn_sup_timeout |-> CONN_SUP_TIMEOUT]

\* gap_params_init(), nrf_ble_gatt_init()
gap_params_init ==
    /\ pc = "gap_params_init" /\ pc' = "services_init"
    /\ sd_ppcp' = gap_conn_params
    /\ adv_start' = <<>>
    /\ UNCHANGED <<led, button_enabled, m_adv_handle, m_qwr, button_char_handles,
                   sd_adv_set, sd_advertising, sd_calls>>
    /\ MainFrame

\* services_init(): nrf_ble_qwr_init
services_init ==
    /\ pc = "services_init" /\ pc' = "service_add"
    /\ m_qwr' = [initialized |-> TRUE, conn_handle |-> BLE_CONN_HANDLE_INVALID]
    /\ adv_start' = <<>>
    /\ UNCHANGED <<led, button_enabled, m_adv_handle, button_char_handles,
                   sd_ppcp, sd_adv_set, sd_advertising, sd_calls>>
    /\ MainFrame

\* advertising_init(), "Add service"
advertising_init_service ==
    /\ pc = "service_add" /\ pc' = "characteristic_add"
    /\ sd_calls' = [sd_calls EXCEPT !.service_add = @ + 1]
    /\ adv_start' = <<>>
    /\ UNCHANGED <<led, button_enabled, m_adv_handle, m_qwr, button_char_handles,
                   sd_ppcp, sd_adv_set, sd_advertising>>
    /\ MainFrame

\* advertising_init(), "Add button characteristic"
advertising_init_char ==
    /\ pc = "characteristic_add" /\ pc' = "adv_set_configure"
    /\ sd_calls' = [sd_calls EXCEPT !.characteristic_add = @ + 1]
    /\ button_char_handles' = [value_handle |-> SdCharValueHandle]
    /\ adv_start' = <<>>
    /\ UNCHANGED <<led, button_enabled, m_adv_handle, m_qwr,
                   sd_ppcp, sd_adv_set, sd_advertising>>
    /\ MainFrame

\* advertising_init(), "Build and set advertising data" and
\* "Initialize advertising parameters": two encodes, then the set is configured
\* and the stack writes its handle to m_adv_handle
advertising_init_configure ==
    /\ pc = "adv_set_configure" /\ pc' = "conn_params_init"
    /\ sd_calls' = [sd_calls EXCEPT !.advdata_encode = @ + 2,
                                    !.adv_set_configure = @ + 1]
    /\ sd_adv_set' = IF m_adv_handle = BLE_GAP_ADV_SET_HANDLE_NOT_SET
                        THEN SdAdvSetHandle ELSE sd_adv_set
    /\ m_adv_handle' = IF m_adv_handle = BLE_GAP_ADV_SET_HANDLE_NOT_SET
                          THEN SdAdvSetHandle ELSE m_adv_handle
    /\ adv_start' = <<>>
    /\ UNCHANGED <<led, button_enabled, m_qwr, button_char_handles,
                   sd_ppcp, sd_advertising>>
    /\ MainFrame

conn_params_init ==
    /\ pc = "conn_params_init" /\ pc' = "advertising_start"
    /\ adv_start' = <<>>
    /\ UNCHANGED <<led, button_enabled, m_adv_handle, m_qwr, button_char_handles,
                   sd_ppcp, sd_adv_set, sd_advertising, sd_calls>>
    /\ MainFrame

\* the last statement of main(): advertising_start()
main_advertising_start ==
    /\ pc = "advertising_start" /\ pc' = "done"
    /\ advertising_start(led)
    /\ UNCHANGED <<button_enabled, m_adv_handle, m_qwr, button_char_handles,
                   sd_ppcp, sd_adv_set, sd_calls>>
    /\ MainFrame

(* --------------------------- event delivery ---------------------------- *)
\* the button module reports an edge of a pin: button_handler runs
ButtonEvent ==
    \E pin \in Pins, action \in ButtonActions :
        /\ button_enabled
        /\ evt' = [kind |-> "button", pin |-> pin, action |-> action,
                   conn_handle |-> BLE_CONN_HANDLE_INVALID,
                   in_startup |-> (pc # "done"), seq |-> 1 - evt.seq]
        /\ last_button0' = IF pin = BSP_BOARD_BUTTON_0
                              THEN (IF action = APP_BUTTON_PUSH THEN "push" ELSE "release")
                              ELSE last_button0
        /\ button_handler(pin, action)
        /\ UNCHANGED <<pc, button_enabled, sd_link, link_evt>>

\* delivery of a link event to ble_evt_handler
Deliver(evt_id, kind, conn_handle) ==
    /\ evt' = [kind |-> kind, pin |-> 0, action |-> 0, conn_handle |-> conn_handle,
               in_startup |-> (pc # "done"), seq |-> 1 - evt.seq]
    /\ link_evt' = [kind |-> kind, conn_handle |-> conn_handle]
    /\ ble_evt_handler(evt_id, conn_handle)
    /\ UNCHANGED <<pc, button_enabled, last_button0>>

\* a peer connects to the advertiser: the stack stops advertising and reports
\* BLE_GAP_EVT_CONNECTED with the handle of the new link
Connected ==
    \E h \in ConnHandles :
        /\ sd_advertising /\ sd_link = BLE_CONN_HANDLE_INVALID
        /\ sd_link' = h
        /\ sd_advertising' = FALSE
        /\ Deliver("BLE_GAP_EVT_CONNECTED", "connected", h)

\* the live link ends: the stack reports BLE_GAP_EVT_DISCONNECTED
Disconnected ==
    /\ sd_link # BLE_CONN_HANDLE_INVALID
    /\ sd_link' = BLE_CONN_HANDLE_INVALID
    /\ Deliver("BLE_GAP_EVT_DISCONNECTED", "disconnected", sd_link)

\* after startup, a connect event in any state of the stack
AnyConnected ==
    \E h \in ConnHandles :
        /\ pc = "done"
        /\ sd_link' = h
        /\ sd_advertising' = FALSE
        /\ Deliver("BLE_GAP_EVT_CONNECTED", "connected", h)

\* after startup, a disconnect event in any state of the stack
AnyDisconnected ==
    \E h \in ConnHandles :
        /\ pc = "done"
        /\ sd_link' = BLE_CONN_HANDLE_INVALID
        /\ Deliver("BLE_GAP_EVT_DISCONNECTED", "disconnected", h)

Main ==
    \/ main_board_init
    \/ main_app_button_enable
    \/ main_ble_enable
    \/ gap_params_init
    \/ services_init
    \/ advertising_init_service
    \/ advertising_init_char
    \/ advertising_init_configure
    \/ conn_params_init
    \/ main_advertising_start

Next == Main \/ ButtonEvent \/ Connected \/ Disconnected

Spec == Init /\ [][Next]_vars

\* the same program under every sequence of link events after startup
NextAny == Main \/ ButtonEvent \/ AnyConnected \/ AnyDisconnected

SpecAny == Init /\ [][NextAny]_vars

(* ------------------------------ claims --------------------------------- *)
\* a step that delivers an event of the given kind
Delivered(kind) == evt' # evt /\ evt'.kind = kind

\* main() has run gap_params_init()
PastGapParamsInit ==
    pc \notin {"bsp_board_init", "app_button_init", "nrf_sdh_ble_enable", "gap_params_init"}

\* C1: m_conn_handle is the handle of the most recent connect event while the
\* most recent link event is a connect, and BLE_CONN_HANDLE_INVALID before any
\* link event and after a disconnect event (no earlier handle stays stored)
C1_ConnHandleTracksLinkEvents ==
    /\ link_evt.kind = "connected" =>
          m_conn_handle = link_evt.conn_handle /\ m_conn_handle # BLE_CONN_HANDLE_INVALID
    /\ link_evt.kind # "connected" => m_conn_handle = BLE_CONN_HANDLE_INVALID

\* C1 witness: a disconnect event handled after a connection that had a handle
C1_Witness ==
    /\ link_evt.kind = "disconnected"
    /\ m_qwr.conn_handle \in ConnHandles
    /\ m_conn_handle = BLE_CONN_HANDLE_INVALID

\* C2 as stated: after a disconnect event the connected LED is off, no handle is
\* stored, the advertising LED is on and the device is advertising again
C2_Original ==
    link_evt.kind = "disconnected" =>
        /\ ~led[BSP_BOARD_LED_3]
        /\ m_conn_handle = BLE_CONN_HANDLE_INVALID
        /\ led[BSP_BOARD_LED_2]
        /\ sd_advertising

\* C2 amended: every disconnect event turns the connected LED off, clears the
\* handle, issues exactly one start request for the configured advertising set
\* and turns the advertising LED on; the device advertises again exactly when
\* the stack accepts that request
C2_DisconnectRequestsAdvertising ==
    [][Delivered("disconnected") =>
          /\ ~led'[BSP_BOARD_LED_3]
          /\ m_conn_handle' = BLE_CONN_HANDLE_INVALID
          /\ led'[BSP_BOARD_LED_2]
          /\ Len(adv_start') = 1
          /\ adv_start'[1].adv_handle = sd_adv_set
          /\ adv_start'[1].adv_handle # BLE_GAP_ADV_SET_HANDLE_NOT_SET
          /\ sd_advertising' <=> (adv_start'[1].ret = "NRF_SUCCESS")]_vars

\* C2 witness: a disconnect whose start request the stack turned down
C2_Witness ==
    /\ evt.kind = "disconnected"
    /\ adv_start # <<>>
    /\ adv_start[1].ret = "NRF_ERROR_RESOURCES"
    /\ led[BSP_BOARD_LED_2]
    /\ ~sd_advertising

\* C3: every button-0 event sets the button LED to "pressed" and makes exactly
\* one notification attempt that carries the edge, whatever the connection state
C3_ButtonPairsLedAndNotification ==
    [][\A a \in ButtonActions :
          (Delivered("button") /\ evt'.pin = BSP_BOARD_BUTTON_0 /\ evt'.action = a) =>
              /\ led'[BSP_BOARD_LED_1] = (a = APP_BUTTON_PUSH)
              /\ Len(hvx') = 1
              /\ hvx'[1].data = a
              /\ hvx'[1].handle = button_char_handles.value_handle]_vars

\* C3 witness: a press handled while connected and a notification carrying 1
C3_Witness ==
    /\ evt.kind = "button" /\ evt.pin = BSP_BOARD_BUTTON_0
    /\ evt.action = APP_BUTTON_PUSH
    /\ link_evt.kind = "connected"
    /\ led[BSP_BOARD_LED_1]
    /\ hvx # <<>> /\ hvx[1].data = APP_BUTTON_PUSH

\* C4: every notification is addressed to m_conn_handle as it is when the
\* button event is handled: the handle of the most recent connect event while
\* connected (the live link), never that of a connection already disconnected
C4_NotificationAddressedToStoredHandle ==
    [][(evt' # evt /\ hvx' # <<>>) =>
          /\ hvx'[1].conn_handle = m_conn_handle
          /\ link_evt.kind = "connected" =>
                hvx'[1].conn_handle = link_evt.conn_handle /\ hvx'[1].conn_handle = sd_link
          /\ link_evt.kind # "connected" => hvx'[1].conn_handle = BLE_CONN_HANDLE_INVALID
          /\ evt'.action = APP_BUTTON_PUSH => hvx'[1].data = 1]_vars

\* C4 witness: a press handled while connected, notified with value 1 on the
\* handle of the live link
C4_Witness ==
    /\ hvx # <<>>
    /\ link_evt.kind = "connected" /\ hvx[1].conn_handle = link_evt.conn_handle
    /\ hvx[1].conn_handle \in ConnHandles
    /\ hvx[1].conn_handle = sd_link
    /\ hvx[1].data = 1
    /\ hvx[1].ret = "NRF_SUCCESS"

\* C5: a press with no connection lights the button LED and attempts the
\* notification with the sentinel handle; a button event never writes
\* m_conn_handle, the advertising LED or the connected LED; m_conn_handle
\* changes only in steps that deliver a connect or a disconnect event
C5_ButtonLeavesConnectionStateAlone ==
    [][/\ (Delivered("button") /\ evt'.pin = BSP_BOARD_BUTTON_0
             /\ evt'.action = APP_BUTTON_PUSH
             /\ m_conn_handle = BLE_CONN_HANDLE_INVALID) =>
              /\ led'[BSP_BOARD_LED_1]
              /\ Len(hvx') = 1
              /\ hvx'[1].conn_handle = BLE_CONN_HANDLE_INVALID
       /\ Delivered("button") =>
              /\ m_conn_handle' = m_conn_handle
              /\ led'[BSP_BOARD_LED_2] = led[BSP_BOARD_LED_2]
              /\ led'[BSP_BOARD_LED_3] = led[BSP_BOARD_LED_3]
       /\ m_conn_handle' # m_conn_handle =>
              Delivered("connected") \/ Delivered("disconnected")]_vars

\* C5 witness: a press while advertising whose notification failed for want of
\* a connection
C5_Witness ==
    /\ evt.kind = "button" /\ evt.pin = BSP_BOARD_BUTTON_0
    /\ evt.action = APP_BUTTON_PUSH
    /\ m_conn_handle = BLE_CONN_HANDLE_INVALID
    /\ led[BSP_BOARD_LED_1] /\ led[BSP_BOARD_LED_2]
    /\ hvx # <<>> /\ hvx[1].ret = "BLE_ERROR_INVALID_CONN_HANDLE"

\* C6 as stated: when main() finishes advertising_start(), the device
\* advertises, the advertising LED is on and the other two LEDs are off
C6_Original ==
    [][(pc # "done" /\ pc' = "done") =>
          /\ sd_advertising'
          /\ led'[BSP_BOARD_LED_2]
          /\ ~led'[BSP_BOARD_LED_3]
          /\ ~led'[BSP_BOARD_LED_1]]_vars

\* C6 amended: when main() finishes advertising_start(), one start request for
\* the configured advertising set has been made and the device advertises
\* exactly when the stack accepted it, the advertising LED is on, the connected
\* LED is off, and the button LED is on exactly when the last button-0 event
\* handled during startup was a press
C6_StartupCompletes ==
    [][(pc # "done" /\ pc' = "done") =>
          /\ Len(adv_start') = 1
          /\ adv_start'[1].adv_handle = sd_adv_set
          /\ adv_start'[1].adv_handle # BLE_GAP_ADV_SET_HANDLE_NOT_SET
          /\ sd_advertising' <=> (adv_start'[1].ret = "NRF_SUCCESS")
          /\ led'[BSP_BOARD_LED_2]
          /\ ~led'[BSP_BOARD_LED_3]
          /\ led'[BSP_BOARD_LED_1] <=> (last_button0' = "push")]_vars

\* C6 witness: startup completed, advertising, after a press handled before
\* advertising_start()
C6_Witness ==
    /\ pc = "done"
    /\ evt.kind = "button" /\ evt.in_startup
    /\ evt.pin = BSP_BOARD_BUTTON_0 /\ evt.action = APP_BUTTON_PUSH
    /\ led[BSP_BOARD_LED_1] /\ led[BSP_BOARD_LED_2]
    /\ sd_advertising

\* C7: a connect event leaves the advertising LED off, the connected LED on,
\* m_conn_handle and the queued-write module's handle equal to the handle of
\* the event, and the button LED as it was
C7_ConnectStoresAndBindsHandle ==
    [][\A h \in ConnHandles :
          (Delivered("connected") /\ evt'.conn_handle = h) =>
              /\ ~led'[BSP_BOARD_LED_2]
              /\ led'[BSP_BOARD_LED_3]
              /\ m_conn_handle' = h
              /\ m_qwr'.conn_handle = h
              /\ led'[BSP_BOARD_LED_1] = led[BSP_BOARD_LED_1]]_vars

\* C7 witness: a connect event handled with the button LED lit
C7_Witness ==
    /\ evt.kind = "connected"
    /\ m_conn_handle = evt.conn_handle
    /\ m_qwr.conn_handle = evt.conn_handle
    /\ led[BSP_BOARD_LED_1] /\ led[BSP_BOARD_LED_3]

\* C8: the parameters gap_params_init() hands to sd_ble_gap_ppcp_set are
\* MIN_CONN_INTERVAL (100 ms), MAX_CONN_INTERVAL (200 ms), SLAVE_LATENCY and
\* CONN_SUP_TIMEOUT
C8_PpcpHasConfiguredIntervals ==
    PastGapParamsInit =>
        /\ sd_ppcp.min_conn_interval = MIN_CONN_INTERVAL
        /\ sd_ppcp.max_conn_interval = MAX_CONN_INTERVAL
        /\ sd_ppcp.slave_latency = SLAVE_LATENCY
        /\ sd_ppcp.conn_sup_timeout = CONN_SUP_TIMEOUT
        /\ MIN_CONN_INTERVAL = 80 /\ MAX_CONN_INTERVAL = 160

\* C9: the service and the characteristic are registered once, before the
\* advertising set is configured (once), which is before any start request;
\* every start request uses the handle configured at startup; no event
\* registers, encodes or configures again
C9_RegistrationOnceAndOrdered ==
    /\ [](/\ sd_calls.service_add <= 1 /\ sd_calls.characteristic_add <= 1
          /\ sd_calls.adv_set_configure <= 1 /\ sd_calls.advdata_encode <= 2
          /\ sd_calls.characteristic_add = 1 => sd_calls.service_add = 1
          /\ sd_calls.adv_set_configure = 1 =>
                sd_calls.service_add = 1 /\ sd_calls.characteristic_add = 1
          /\ adv_start # <<>> =>
                /\ sd_calls.adv_set_configure = 1
                /\ adv_start[1].adv_handle = SdAdvSetHandle
                /\ adv_start[1].adv_handle = sd_adv_set
          /\ pc = "done" =>
                /\ sd_calls.service_add = 1 /\ sd_calls.characteristic_add = 1
                /\ sd_calls.adv_set_configure = 1)
    /\ [][evt' # evt =>
            UNCHANGED <<sd_calls, m_adv_handle, sd_adv_set, button_char_handles>>]_vars

\* C9 witness: advertising restarted after a disconnect with the handle and the
\* single configuration of startup
C9_Witness ==
    /\ evt.kind = "disconnected"
    /\ adv_start # <<>> /\ adv_start[1].adv_handle = SdAdvSetHandle
    /\ adv_start[1].ret = "NRF_SUCCESS"
    /\ sd_calls.adv_set_configure = 1 /\ sd_calls.service_add = 1

\* C10: after startup exactly one of the advertising LED and the connected LED
\* is on, and the connected LED is on exactly when a handle is stored, under
\* every sequence of connect, disconnect and button events
C10_ExactlyOneStatusLed ==
    pc = "done" =>
        /\ led[BSP_BOARD_LED_2] # led[BSP_BOARD_LED_3]
        /\ led[BSP_BOARD_LED_3] <=> (m_conn_handle # BLE_CONN_HANDLE_INVALID)

\* C10 witness: a disconnect event handled while the stack was advertising
\* (no connection was open)
C10_Witness ==
    /\ pc = "done"
    /\ evt.kind = "disconnected"
    /\ adv_start # <<>> /\ adv_start[1].ret = "NRF_ERROR_INVALID_STATE"
    /\ led[BSP_BOARD_LED_2] /\ ~led[BSP_BOARD_LED_3]

====
